---- MODULE Spec2Model ----
(***************************************************************************)
(* Model of re-receipts (main.ts): the receipt renamer.                    *)
(*                                                                         *)
(* Strings are tuples of one-character strings, so that split / pop /      *)
(* toLowerCase and the regular expression of extractFilename are computed  *)
(* as the code computes them.  In a response text the two delimiters       *)
(* "<filename>" and "</filename>" are single tokens of the tuple; every     *)
(* other element is one character.                                         *)
(***************************************************************************)
EXTENDS Integers, Sequences, FiniteSets, TLC

VARIABLES
    inDir,      \* what ./receipts is on disk: "dir", "missing" or "file"
    outDir,     \* what ./renamed-receipts is on disk
    listing,    \* the entries Deno.readDir yields, in the provider's order
    mainPc,     \* position of main()
    cursor,     \* number of entries of listing the for-await loop has consumed
    files,      \* main's files array
    pipe,       \* per file (index of files): the frame of processImage
    outFiles,   \* contents of the output directory: path -> bytes
    printed,    \* console lines, in order
    exitCode,   \* exit status of the process, absent while it runs
    text,       \* argument of extractFilename            (SpecExtract)
    extracted,  \* its outcome                            (SpecExtract)
    input,      \* argument of the extension functions    (SpecExtension)
    normalized, \* outcome of getNormalizedExtension       (SpecExtension)
    validated,  \* outcome of isValidImageExtension        (SpecExtension)
    renormalized \* outcome of getNormalizedExtension on a name that ends in
                \* the normalized extension             (SpecExtension)

vars == <<inDir, outDir, listing, mainPc, cursor, files, pipe, outFiles,
          printed, exitCode, text, extracted, input, normalized, validated,
          renormalized>>

mainVars == <<inDir, outDir, listing, mainPc, cursor, files, pipe, outFiles,
              printed, exitCode>>
extractVars == <<text, extracted>>
extensionVars == <<input, normalized, validated, renormalized>>

\* An optional value: absent (undefined) or present.
None    == [present |-> FALSE]
Some(v) == [present |-> TRUE, value |-> v]

-----------------------------------------------------------------------------
(* Bounds *)

\* Longest response text, in tokens, of SpecExtract.
MaxTextLen == 6
\* Longest file name, in characters, drawn from NameAlphabet in SpecExtension.
MaxNameLen == 4
\* Most entries the input directory holds in Spec.
MaxEntries == 2

-----------------------------------------------------------------------------
(* CONFIG *)

JPG  == <<"j", "p", "g">>
JPEG == <<"j", "p", "e", "g">>
PNG  == <<"p", "n", "g">>
GIF  == <<"g", "i", "f">>
WEBP == <<"w", "e", "b", "p">>
TXT  == <<"t", "x", "t">>

SUPPORTED_EXTENSIONS == {JPG, JPEG, PNG, GIF, WEBP}

\* EXTENSION_MAPPING, own properties.
EXTENSION_MAPPING == [e \in {JPG} |-> JPEG]

\* Property names every object literal inherits from Object.prototype that
\* survive toLowerCase(); the `in` operator finds them too.
CONSTRUCTOR == <<"c", "o", "n", "s", "t", "r", "u", "c", "t", "o", "r">>
PROTO == <<"_", "_", "p", "r", "o", "t", "o", "_", "_">>
InheritedKeys == {CONSTRUCTOR, PROTO}
\* What indexing the mapping with an inherited key yields: an object, no string.
InheritedValue == <<"[object]">>

\* type BedrockAcceptedImageExtensions
BedrockAcceptedImageExtensions == {PNG, JPEG, GIF, WEBP}

\* Default of the retries parameter of getNewFilename.
DefaultRetries == 3

-----------------------------------------------------------------------------
(* Extension functions *)

ToLowerChar(c) ==
    CASE c = "J" -> "j"
      [] c = "P" -> "p"
      [] c = "G" -> "g"
      [] c = "N" -> "n"
      [] c = "E" -> "e"
      [] c = "I" -> "i"
      [] c = "F" -> "f"
      [] OTHER -> c

toLowerCase(s) == [i \in 1..Len(s) |-> ToLowerChar(s[i])]

MaxOf(S) == CHOOSE m \in S : \A x \in S : x <= m

\* fileName.split(".").pop(): the part after the last ".", the whole name
\* when it holds no ".".
SplitPop(s) ==
    LET dots == {i \in 1..Len(s) : s[i] = "."}
    IN  IF dots = {} THEN s ELSE SubSeq(s, MaxOf(dots) + 1, Len(s))

\* Mutant: the alias table also maps jpeg to jpg.
getNormalizedExtensionSwapping(name) ==
    LET extension == toLowerCase(SplitPop(name))
    IN  IF extension = JPG THEN JPEG
        ELSE IF extension = JPEG THEN JPG
        ELSE IF extension \in InheritedKeys THEN InheritedValue ELSE extension

\* Mutant: the alias table is not applied.
getNormalizedExtensionUnmapped(name) == toLowerCase(SplitPop(name))

getNormalizedExtension(name) ==
    LET extension == toLowerCase(SplitPop(name))   \* "" || "" is ""
    IN  IF extension \in DOMAIN EXTENSION_MAPPING
        THEN EXTENSION_MAPPING[extension]
        ELSE IF extension \in InheritedKeys THEN InheritedValue ELSE extension

isValidImageExtension(extension) == extension \in SUPPORTED_EXTENSIONS

-----------------------------------------------------------------------------
(* extractFilename *)

OPEN  == "<filename>"
CLOSE == "</filename>"
NL    == "\n"

\* Error messages: the three the program makes, and one for each call of a
\* collaborator that can reject (client.send, Deno.readFile, Deno.writeFile).
ExtractionMsg  == "Failed to extract filename from response"
InvalidMsg     == "Invalid response from Bedrock"
UnsupportedMsg == "Unsupported image format"
TransportMsg   == "client.send rejected"
ReadMsg        == "Deno.readFile rejected"
WriteMsg       == "Deno.writeFile rejected"

MinOf(S) == CHOOSE m \in S : \A x \in S : m <= x

\* content.match(/<filename>(.*?)<\/filename>/s): the leftmost position of
\* an opening delimiter that some closing delimiter follows, and the lazy
\* group up to the nearest closing delimiter; with `dotAll` false the group
\* cannot cross a line break.  The match (null when nothing matches) and
\* match[1].
RegexMatch(content, dotAll) ==
    LET CloseAfter(i) == {j \in (i+1)..Len(content) :
                            /\ content[j] = CLOSE
                            /\ dotAll \/ \A k \in (i+1)..(j-1) : content[k] # NL}
        starts == {i \in 1..Len(content) :
                     content[i] = OPEN /\ CloseAfter(i) # {}}
    IN  IF starts = {} THEN [matched |-> FALSE, group |-> <<>>]
        ELSE LET i == MinOf(starts)
                 j == MinOf(CloseAfter(i))
             IN  [matched |-> TRUE, group |-> SubSeq(content, i + 1, j - 1)]

Thrown(e)   == [threw |-> TRUE, error |-> e]
Returned(v) == [threw |-> FALSE, value |-> v]

\* Mutant: the regular expression lacks the s flag.
extractFilenameNoDotAll(content) ==
    LET match == RegexMatch(content, FALSE)
    IN  IF ~match.matched \/ match.group = <<>>
        THEN Thrown(ExtractionMsg)
        ELSE Returned(match.group)

extractFilename(content) ==
    LET match == RegexMatch(content, TRUE)
    IN  IF ~match.matched \/ match.group = <<>>      \* !match?.[1]
        THEN Thrown(ExtractionMsg)
        ELSE Returned(match.group)

-----------------------------------------------------------------------------
(* The input directory and the remote service *)

Str_a_jpg == <<"a", ".", "j", "p", "g">>
Str_b_PNG == <<"b", ".", "P", "N", "G">>
Str_c_txt == <<"c", ".", "t", "x", "t">>
Str_png   == <<"p", "n", "g">>
Str_sub   == <<"s", "u", "b">>

\* Directory entries the input directory may hold (Deno.DirEntry).
EntryPool ==
    { [name |-> Str_a_jpg, isFile |-> TRUE],
      [name |-> Str_b_PNG, isFile |-> TRUE],
      [name |-> Str_c_txt, isFile |-> TRUE],
      [name |-> Str_png,   isFile |-> TRUE],
      [name |-> Str_sub,   isFile |-> FALSE] }

\* A directory holds each name once.
Listings ==
    UNION { { l \in [1..n -> EntryPool] :
                \A i, j \in 1..n : i # j => l[i].name # l[j].name }
            : n \in 0..MaxEntries }

\* The bytes of an input file.
Bytes(name) == [bytesOf |-> name]

\* Response texts of the service: empty, no delimiter pair, and a name
\* between prose.  (Every other text is the subject of SpecExtract.)
TextEmpty     == <<>>
TextNoPair    == <<"x">>
TextName      == <<"x", OPEN, "n", CLOSE, "x">>
ResponseTexts == {TextEmpty, TextNoPair, TextName}

\* What awaiting client.send(command) yields: a rejection, a response
\* without output.message.content[0].text, or one with a text.
SendOutcomes ==
    { [rejects |-> TRUE, text |-> None] }
    \cup { [rejects |-> FALSE, text |-> None] }
    \cup { [rejects |-> FALSE, text |-> Some(t)] : t \in ResponseTexts }

-----------------------------------------------------------------------------
(* getNewFilename and processImage *)

\* An Error object: its message and the attempt of getNewFilename that made
\* it (0 outside getNewFilename).
Err(msg, attempt) == [message |-> msg, attempt |-> attempt]

\* The frame of processImage(dirEntry) on entry.
NewFrame(entry) ==
    [ pc          |-> "entry",
      originalName |-> entry.name,
      extension   |-> <<>>,
      image       |-> None,
      retries     |-> DefaultRetries,
      response    |-> None,      \* what the latest client.send settled with
      caught      |-> None,      \* `error` of the innermost catch block
      sent        |-> <<>>,      \* format of every request sent, in order
      warned      |-> <<>>,      \* numbers printed by console.warn
      newFileName |-> None,
      newPath     |-> None,
      result      |-> [ success |-> FALSE, originalName |-> entry.name,
                        newName |-> None, error |-> None ] ]

\* Mutant: processImage lets the error escape, so its promise rejects.
CatchRethrows(p, error) ==
    [p EXCEPT !.pc = "rejected",
              !.result = [@ EXCEPT !.success = FALSE, !.error = Some(error)]]

\* The catch block of processImage, and its return.
CatchInProcessImage(p, error) ==
    [p EXCEPT !.pc = "done",
              !.result = [@ EXCEPT !.success = FALSE, !.error = Some(error)]]

\* new ConverseCommand(...) and client.send(command), up to the await.
SendCommand(p, retries) ==
    [p EXCEPT !.pc = "awaiting",
              !.retries = retries,
              !.sent = Append(@, p.extension)]

\* The synchronous start of processImage: normalize, validate, start the read.
StartPipeline(entry) ==
    LET p0 == NewFrame(entry)
        extension == getNormalizedExtension(entry.name)
        p1 == [p0 EXCEPT !.extension = extension]
    IN  IF ~isValidImageExtension(extension)
        THEN CatchInProcessImage(p1, Err(UnsupportedMsg, 0))
        ELSE [p1 EXCEPT !.pc = "reading"]

\* Deno.readFile settles; on success getNewFilename is called.
AfterRead(p, ok) ==
    IF ~ok
    THEN CatchInProcessImage(p, Err(ReadMsg, 0))
    ELSE SendCommand([p EXCEPT !.image = Some(Bytes(p.originalName))],
                     DefaultRetries)

\* The try block of getNewFilename once client.send has settled.
TryBlock(p, outcome) ==
    LET attempt == Len(p.sent)
    IN  IF outcome.rejects
        THEN Thrown(Err(TransportMsg, attempt))
        ELSE IF ~outcome.text.present \/ outcome.text.value = <<>>
        THEN Thrown(Err(InvalidMsg, attempt))
        ELSE LET r == extractFilename(outcome.text.value)
             IN  IF r.threw THEN Thrown(Err(r.error, attempt)) ELSE r

\* Mutant: the budget test is off by one.
CatchRetriesOnceMore(p, error) ==
    IF p.retries >= 0
    THEN SendCommand([p EXCEPT !.warned = Append(@, 4 - p.retries),
                               !.caught = Some(error)],
                     p.retries - 1)
    ELSE CatchInProcessImage([p EXCEPT !.caught = Some(error)], error)

\* Mutant: an invalid response is thrown past the retry.
CatchSkipsInvalid(p, error) ==
    IF p.retries > 0 /\ error.message # InvalidMsg
    THEN SendCommand([p EXCEPT !.warned = Append(@, 4 - p.retries),
                               !.caught = Some(error)],
                     p.retries - 1)
    ELSE CatchInProcessImage([p EXCEPT !.caught = Some(error)], error)

\* Mutant: once the budget is spent the error caught before is thrown.
CatchThrowsPrevious(p, error) ==
    IF p.retries > 0
    THEN SendCommand([p EXCEPT !.warned = Append(@, 4 - p.retries),
                               !.caught = Some(error)],
                     p.retries - 1)
    ELSE CatchInProcessImage(p, IF p.caught.present THEN p.caught.value
                                ELSE error)

\* The catch block of getNewFilename.
CatchInGetNewFilename(p, error) ==
    IF p.retries > 0
    THEN SendCommand([p EXCEPT !.warned = Append(@, 4 - p.retries),
                               !.caught = Some(error)],
                     p.retries - 1)
    ELSE CatchInProcessImage([p EXCEPT !.caught = Some(error)], error)

\* Mutant: the result's newName is set before the write.
AfterGetNewFilenameEager(p, newFileName) ==
    [p EXCEPT !.pc = "writing",
              !.caught = None,
              !.newFileName = Some(newFileName),
              !.newPath = Some(newFileName \o <<".">> \o p.extension),
              !.result = [@ EXCEPT !.newName = Some(newFileName)]]

\* Mutant: the path keeps the file's own extension.
AfterGetNewFilenameOwnExtension(p, newFileName) ==
    [p EXCEPT !.pc = "writing",
              !.caught = None,
              !.newFileName = Some(newFileName),
              !.newPath = Some(newFileName \o <<".">> \o SplitPop(p.originalName))]

\* getNewFilename returned, its catch blocks are gone: build the path and
\* start the write.
AfterGetNewFilename(p, newFileName) ==
    [p EXCEPT !.pc = "writing",
              !.caught = None,
              !.newFileName = Some(newFileName),
              !.newPath = Some(newFileName \o <<".">> \o p.extension)]

\* client.send settles.
AfterSend(p, outcome) ==
    LET p1 == [p EXCEPT !.response = Some(outcome)]
        r  == TryBlock(p1, outcome)
    IN  IF r.threw
        THEN CatchInGetNewFilename(p1, r.error)
        ELSE AfterGetNewFilename(p1, r.value)

\* Mutant: the result reports success whether or not the write completed.
AfterWriteUnchecked(p, ok) ==
    [p EXCEPT !.pc = "done",
              !.result = [@ EXCEPT !.success = TRUE,
                                   !.newName = p.newFileName]]

\* Deno.writeFile settles.
AfterWrite(p, ok) ==
    IF ~ok
    THEN CatchInProcessImage(p, Err(WriteMsg, 0))
    ELSE [p EXCEPT !.pc = "done",
                   !.result = [@ EXCEPT !.success = TRUE,
                                        !.newName = p.newFileName]]

\* Mutant: an existing path is left as it is.
WriteFileKeepsExisting(dir, path, bytes) ==
    IF \E f \in dir : f.path = path
    THEN dir
    ELSE dir \cup {[path |-> path, bytes |-> bytes]}

\* Deno.writeFile(path, bytes) creates or overwrites path.
WriteFile(dir, path, bytes) ==
    {f \in dir : f.path # path} \cup {[path |-> path, bytes |-> bytes]}

-----------------------------------------------------------------------------
(* main *)

\* Mutant: a path that is not a directory is accepted as it is.
validateDirectoryLenient(kind) ==
    CASE kind = "dir"     -> [threw |-> FALSE, kind |-> "dir"]
      [] kind = "missing" -> [threw |-> FALSE, kind |-> "dir"]
      [] OTHER            -> [threw |-> FALSE, kind |-> kind]

\* validateDirectory(path) on a path that is `kind` on disk: whether it
\* throws, and what the path is afterwards.
validateDirectory(kind) ==
    CASE kind = "dir"     -> [threw |-> FALSE, kind |-> "dir"]
      [] kind = "missing" -> [threw |-> FALSE, kind |-> "dir"]   \* Deno.mkdir
      [] OTHER            -> [threw |-> TRUE,  kind |-> kind]

\* The catch block of main.
Fatal ==
    /\ mainPc' = "fatal"
    /\ printed' = Append(printed, [line |-> "Fatal error"])
    /\ exitCode' = Some(1)

ValidateInput ==
    /\ mainPc = "validateInput"
    /\ LET v == validateDirectory(inDir)
       IN  /\ inDir' = v.kind
           /\ IF v.threw
              THEN Fatal
              ELSE /\ mainPc' = "validateOutput"
                   /\ UNCHANGED <<printed, exitCode>>
    /\ UNCHANGED <<outDir, listing, cursor, files, pipe, outFiles>>
    /\ UNCHANGED <<extractVars, extensionVars>>

ValidateOutput ==
    /\ mainPc = "validateOutput"
    /\ LET v == validateDirectory(outDir)
       IN  /\ outDir' = v.kind
           /\ IF v.threw
              THEN Fatal
              ELSE /\ mainPc' = "readDir"
                   /\ UNCHANGED <<printed, exitCode>>
    /\ UNCHANGED <<inDir, listing, cursor, files, pipe, outFiles>>
    /\ UNCHANGED <<extractVars, extensionVars>>

\* Mutant: every entry is pushed, a regular file or not.
ReadDirNextKeepsAll ==
    /\ mainPc = "readDir"
    /\ cursor < Len(listing)
    /\ cursor' = cursor + 1
    /\ files' = Append(files, listing[cursor + 1])
    /\ UNCHANGED <<inDir, outDir, listing, mainPc, pipe, outFiles, printed,
                   exitCode>>
    /\ UNCHANGED <<extractVars, extensionVars>>

\* One iteration of the for-await loop over Deno.readDir.
ReadDirNext ==
    /\ mainPc = "readDir"
    /\ cursor < Len(listing)
    /\ cursor' = cursor + 1
    /\ files' = IF listing[cursor + 1].isFile
                THEN Append(files, listing[cursor + 1])
                ELSE files
    /\ UNCHANGED <<inDir, outDir, listing, mainPc, pipe, outFiles, printed,
                   exitCode>>
    /\ UNCHANGED <<extractVars, extensionVars>>

\* Deno.readDir rejects (the directory became unreadable): the catch block of
\* main.
ReadDirRejects ==
    /\ mainPc = "readDir"
    /\ Fatal
    /\ UNCHANGED <<inDir, outDir, listing, cursor, files, pipe, outFiles>>
    /\ UNCHANGED <<extractVars, extensionVars>>

\* The loop ends: the count is printed and files.map(processImage) runs
\* every pipeline up to its first await.
Dispatch ==
    /\ mainPc = "readDir"
    /\ cursor = Len(listing)
    /\ printed' = Append(printed, [line |-> "Processing", count |-> Len(files)])
    /\ pipe' = [i \in 1..Len(files) |-> StartPipeline(files[i])]
    /\ mainPc' = "awaitAll"
    /\ UNCHANGED <<inDir, outDir, listing, cursor, files, outFiles, exitCode>>
    /\ UNCHANGED <<extractVars, extensionVars>>

ReadDone(i, ok) ==
    /\ mainPc = "awaitAll"
    /\ pipe[i].pc = "reading"
    /\ pipe' = [pipe EXCEPT ![i] = AfterRead(@, ok)]
    /\ UNCHANGED <<inDir, outDir, listing, mainPc, cursor, files, outFiles,
                   printed, exitCode>>
    /\ UNCHANGED <<extractVars, extensionVars>>

SendDone(i, outcome) ==
    /\ mainPc = "awaitAll"
    /\ pipe[i].pc = "awaiting"
    /\ pipe' = [pipe EXCEPT ![i] = AfterSend(@, outcome)]
    /\ UNCHANGED <<inDir, outDir, listing, mainPc, cursor, files, outFiles,
                   printed, exitCode>>
    /\ UNCHANGED <<extractVars, extensionVars>>

WriteDone(i, ok) ==
    /\ mainPc = "awaitAll"
    /\ pipe[i].pc = "writing"
    /\ pipe' = [pipe EXCEPT ![i] = AfterWrite(@, ok)]
    /\ outFiles' = IF ok
                   THEN WriteFile(outFiles, pipe[i].newPath.value,
                                  pipe[i].image.value)
                   ELSE outFiles
    /\ UNCHANGED <<inDir, outDir, listing, mainPc, cursor, files, printed,
                   exitCode>>
    /\ UNCHANGED <<extractVars, extensionVars>>

\* The line results.forEach prints for one result.
ResultLine(result) ==
    IF result.success
    THEN [line |-> "Successfully renamed", originalName |-> result.originalName,
          newName |-> result.newName]
    ELSE [line |-> "Failed to process", originalName |-> result.originalName,
          message |-> IF result.error.present
                      THEN Some(result.error.value.message) ELSE None]

\* Mutant: half of the batch is enough.
HalfFailed(failed, total) == 2 * failed >= total

\* failed > results.length / 2, a division of floating-point numbers.
MajorityFailed(failed, total) == 2 * failed > total

\* Lines 309-332: the result lines, the tally, the warning.
PrintReport ==
    LET results    == [i \in DOMAIN pipe |-> pipe[i].result]
        successful == Cardinality({i \in DOMAIN results : results[i].success})
        failed     == Cardinality({i \in DOMAIN results : ~results[i].success})
        tally      == [line |-> "Processed", total |-> Len(results),
                       successful |-> successful, failed |-> failed]
        warning    == IF MajorityFailed(failed, Len(results))
                      THEN <<[line |-> "You really messed up!"]>> ELSE <<>>
    IN  printed' = printed \o [i \in DOMAIN results |-> ResultLine(results[i])]
                           \o <<tally>> \o warning

\* Mutant: the first promise to settle settles the whole.
PromiseRace(promises) ==
    IF \E i \in DOMAIN promises : promises[i].pc = "rejected" THEN "rejected"
    ELSE IF \E i \in DOMAIN promises : promises[i].pc = "done" THEN "fulfilled"
    ELSE IF promises = <<>> THEN "fulfilled"
    ELSE "pending"

\* Promise.all fulfils once every promise has, and rejects as soon as one
\* does.
PromiseAll(promises) ==
    IF \E i \in DOMAIN promises : promises[i].pc = "rejected" THEN "rejected"
    ELSE IF \A i \in DOMAIN promises : promises[i].pc = "done" THEN "fulfilled"
    ELSE "pending"

\* Mutant: a batch with a majority of failures exits with status 1.
ExitFailsOnMajority(failed, total) ==
    IF MajorityFailed(failed, total) THEN 1 ELSE 0

\* main returns after the report whatever the counts are: the process exits
\* with status 0.
ExitAfterReport(failed, total) == 0

\* The await of Promise.all resumes main: the report, or the catch block of
\* main.
Report ==
    /\ mainPc = "awaitAll"
    /\ PromiseAll(pipe) # "pending"
    /\ IF PromiseAll(pipe) = "rejected" THEN Fatal ELSE
       /\ PrintReport
       /\ mainPc' = "done"
       /\ exitCode' =
             Some(ExitAfterReport(
                      Cardinality({i \in DOMAIN pipe : ~pipe[i].result.success}),
                      Len(pipe)))
    /\ UNCHANGED <<inDir, outDir, listing, cursor, files, pipe, outFiles>>
    /\ UNCHANGED <<extractVars, extensionVars>>

\* main has not been called.
MainIdle ==
    /\ inDir = "dir"
    /\ outDir = "dir"
    /\ listing = <<>>
    /\ mainPc = "idle"
    /\ cursor = 0
    /\ files = <<>>
    /\ pipe = <<>>
    /\ outFiles = {}
    /\ printed = <<>>
    /\ exitCode = None

Init ==
    /\ inDir \in {"dir", "missing", "file"}
    /\ outDir \in {"dir", "missing", "file"}
    /\ listing \in IF inDir = "dir" THEN Listings ELSE {<<>>}
    /\ mainPc = "validateInput"
    /\ cursor = 0
    /\ files = <<>>
    /\ pipe = <<>>
    /\ outFiles = {}
    /\ printed = <<>>
    /\ exitCode = None
    /\ text = <<>>
    /\ extracted = None
    /\ input = <<>>
    /\ normalized = None
    /\ validated = None
    /\ renormalized = None

Next ==
    \/ ValidateInput
    \/ ValidateOutput
    \/ ReadDirNext
    \/ ReadDirRejects
    \/ Dispatch
    \/ \E i \in DOMAIN pipe : \E ok \in BOOLEAN : ReadDone(i, ok)
    \/ \E i \in DOMAIN pipe : \E outcome \in SendOutcomes : SendDone(i, outcome)
    \/ \E i \in DOMAIN pipe : \E ok \in BOOLEAN : WriteDone(i, ok)
    \/ Report

Spec == Init /\ [][Next]_vars

-----------------------------------------------------------------------------
(* extractFilename on every text up to MaxTextLen tokens *)

TextAlphabet == {OPEN, CLOSE, "x", NL}

Texts == UNION { [1..n -> TextAlphabet] : n \in 0..MaxTextLen }

InitExtract ==
    /\ MainIdle
    /\ text \in Texts
    /\ extracted = None
    /\ input = <<>>
    /\ normalized = None
    /\ validated = None
    /\ renormalized = None

Extract ==
    /\ ~extracted.present
    /\ extracted' = Some(extractFilename(text))
    /\ UNCHANGED <<text, mainVars, extensionVars>>

NextExtract == Extract

SpecExtract == InitExtract /\ [][NextExtract]_vars

-----------------------------------------------------------------------------
(* The extension functions on every name up to MaxNameLen characters of    *)
(* NameAlphabet, and on some longer names                                  *)

NameAlphabet == {".", "j", "p", "g", "J"}

Str_x_constructor == <<"x", ".">> \o CONSTRUCTOR
Str_d_tar_GIF     == <<"d", ".", "t", "a", "r", ".", "G", "I", "F">>
Str_e_webp        == <<"e", ".", "w", "e", "b", "p">>
Str_f_jpeg        == <<"f", ".", "j", "p", "e", "g">>

LongerNames ==
    { JPEG, PNG, GIF, WEBP, TXT, PROTO, Str_a_jpg, Str_b_PNG, Str_c_txt,
      Str_x_constructor, Str_d_tar_GIF, Str_e_webp, Str_f_jpeg }

\* "x." followed by each supported extension.
DottedNames == { <<"x", ".">> \o e : e \in SUPPORTED_EXTENSIONS }

Inputs ==
    UNION { [1..n -> NameAlphabet] : n \in 0..MaxNameLen }
        \cup LongerNames \cup DottedNames

InitExtension ==
    /\ MainIdle
    /\ text = <<>>
    /\ extracted = None
    /\ input \in Inputs
    /\ normalized = None
    /\ validated = None
    /\ renormalized = None

Normalize ==
    /\ ~normalized.present
    /\ normalized' = Some(getNormalizedExtension(input))
    /\ UNCHANGED <<input, validated, renormalized, mainVars, extractVars>>

Validate ==
    /\ ~validated.present
    /\ validated' = Some(isValidImageExtension(input))
    /\ UNCHANGED <<input, normalized, renormalized, mainVars, extractVars>>

\* getNormalizedExtension of "x." followed by the extension it returned.
NormalizeAgain ==
    /\ normalized.present
    /\ ~renormalized.present
    /\ renormalized' =
          Some(getNormalizedExtension(<<"x", ".">> \o normalized.value))
    /\ UNCHANGED <<input, normalized, validated, mainVars, extractVars>>

NextExtension == Normalize \/ Validate \/ NormalizeAgain

SpecExtension == InitExtension /\ [][NextExtension]_vars

-----------------------------------------------------------------------------
(* Vocabulary of the properties *)

\* Positions <<i, j>> of an opening delimiter and a closing one after it.
Pairs(t) ==
    {pr \in (1..Len(t)) \X (1..Len(t)) :
        pr[1] < pr[2] /\ t[pr[1]] = OPEN /\ t[pr[2]] = CLOSE}

\* The first pair: the earliest opening delimiter, the nearest closing one.
FirstPair(t) ==
    CHOOSE pr \in Pairs(t) :
        \A q \in Pairs(t) : pr[1] < q[1] \/ (pr[1] = q[1] /\ pr[2] <= q[2])

\* The X of the first <filename>X</filename>.
FirstName(t) ==
    LET pr == FirstPair(t)
    IN  [k \in 1..(pr[2] - pr[1] - 1) |-> t[pr[1] + k]]

\* Kinds of outcome of one remote call.
Rejected(o)      == o.rejects
AbsentOrEmpty(o) == ~o.rejects /\ (~o.text.present \/ o.text.value = <<>>)
ValidText(o)     == ~o.rejects /\ o.text.present /\ o.text.value # <<>>
LacksPair(o)     == ValidText(o) /\ Pairs(o.text.value) = {}
HoldsName(o)     == /\ ValidText(o)
                    /\ Pairs(o.text.value) # {}
                    /\ FirstName(o.text.value) # <<>>

MaxAttempts == DefaultRetries + 1

\* Every attempt of getNewFilename was made and failed.
Exhausted(p) ==
    p.pc = "done" /\ Len(p.sent) = MaxAttempts /\ ~p.newFileName.present

-----------------------------------------------------------------------------
(* C1 *)

\* C1: a structurally valid response whose text holds no
\* <filename>...</filename> pair is never retried: the pipeline ends at once
\* with the extraction error of that attempt, and when it was the first
\* response exactly one remote call was made.
C1_ExtractionNeverRetried ==
    \A i \in DOMAIN pipe :
        LET p == pipe[i]
        IN  (p.response.present /\ LacksPair(p.response.value)) =>
                /\ p.pc = "done"
                /\ p.result.error = Some(Err(ExtractionMsg, Len(p.sent)))
                /\ (p.warned = <<>> => Len(p.sent) = 1)

-----------------------------------------------------------------------------
(* C2 *)

\* C2: one invocation of getNewFilename with the default budget sends at
\* most 4 requests (1 attempt and 3 retries), whatever the outcomes are.
C2_RetryBound ==
    \A i \in DOMAIN pipe : Len(pipe[i].sent) <= MaxAttempts

\* A file whose four attempts all failed, the fourth by a rejected call.
C2_Witness ==
    \E i \in DOMAIN pipe :
        /\ Exhausted(pipe[i])
        /\ pipe[i].warned = <<1, 2, 3>>
        /\ Rejected(pipe[i].response.value)

-----------------------------------------------------------------------------
(* C3 *)

\* C3: when the response of attempt k holds a delimited name, getNewFilename
\* returns that name after exactly k requests, the k-1 earlier attempts having
\* failed and been retried, and sends nothing afterwards; a rejected call and
\* an absent or empty text are failed attempts, retried while the budget
\* lasts.
C3_SuccessAfterKAttempts ==
    [][ /\ \A i \in DOMAIN pipe :
             (pipe[i].pc = "awaiting" /\ pipe'[i] # pipe[i]) =>
                 LET p == pipe[i]
                     q == pipe'[i]
                     o == q.response.value
                     k == Len(p.sent)
                 IN  /\ HoldsName(o) =>
                            /\ q.pc = "writing"
                            /\ q.newFileName = Some(FirstName(o.text.value))
                            /\ q.sent = p.sent
                            /\ q.warned = [n \in 1..(k - 1) |-> n]
                     /\ ((Rejected(o) \/ AbsentOrEmpty(o)) /\ k < MaxAttempts) =>
                            /\ q.pc = "awaiting"
                            /\ q.sent = Append(p.sent, p.extension)
                            /\ q.warned = [n \in 1..k |-> n]
        /\ \A i \in DOMAIN pipe :
             pipe[i].newFileName.present => pipe'[i].sent = pipe[i].sent
      ]_vars

\* Attempts 1-3 failed and were retried, and attempt 4 returned the name.
C3_Witness ==
    \E i \in DOMAIN pipe :
        /\ pipe[i].pc = "writing"
        /\ Len(pipe[i].sent) = 4
        /\ pipe[i].warned = <<1, 2, 3>>
        /\ pipe[i].newFileName = Some(<<"n">>)

-----------------------------------------------------------------------------
(* C4 *)

\* The message of the error an attempt with outcome o ends in.
MessageOf(o) ==
    IF Rejected(o) THEN TransportMsg
    ELSE IF AbsentOrEmpty(o) THEN InvalidMsg
    ELSE ExtractionMsg

-----------------------------------------------------------------------------
(* C5 *)

\* A step of the pipeline of file i: one of its awaits settles.
StepOf(i) ==
    \/ \E ok \in BOOLEAN : ReadDone(i, ok)
    \/ \E outcome \in SendOutcomes : SendDone(i, outcome)
    \/ \E ok \in BOOLEAN : WriteDone(i, ok)

\* What the frame p of a pipeline can become when its pending await settles.
Successors(p) ==
    CASE p.pc = "reading"  -> {AfterRead(p, ok) : ok \in BOOLEAN}
      [] p.pc = "awaiting" -> {AfterSend(p, outcome) : outcome \in SendOutcomes}
      [] p.pc = "writing"  -> {AfterWrite(p, ok) : ok \in BOOLEAN}
      [] OTHER             -> {}

RECURSIVE Closure(_)
Closure(frames) ==
    LET more == frames \cup UNION {Successors(p) : p \in frames}
    IN  IF more = frames THEN frames ELSE Closure(more)

\* Every frame the pipeline of an entry passes through when that entry is
\* the only file of the batch.
AloneFrames == [e \in EntryPool |-> Closure({StartPipeline(e)})]

\* The files of the batch whose normalized extension is not accepted.
UnsupportedFiles ==
    {i \in DOMAIN pipe : pipe[i].extension \notin BedrockAcceptedImageExtensions}

C5_Inv ==
    \* one pipeline and one result per file, whatever happened to the others
    /\ mainPc \in {"awaitAll", "done"} =>
          /\ Len(pipe) = Len(files)
          /\ \A i \in DOMAIN pipe : pipe[i].result.originalName = files[i].name
    \* a failure never escapes the pipeline: no fatal run once one has started
    /\ mainPc = "fatal" => pipe = <<>>
    /\ \A i \in DOMAIN pipe :
          pipe[i].pc \in {"reading", "awaiting", "writing", "done"}
    \* the K files of unsupported extension are K validation failures
    /\ \A i \in UnsupportedFiles :
          /\ pipe[i].pc = "done"
          /\ ~pipe[i].result.success
          /\ pipe[i].result.error = Some(Err(UnsupportedMsg, 0))
    \* a file goes through what it goes through alone: its frame is one it
    \* has alone, and while it is not settled it can take its next step
    /\ \A i \in DOMAIN pipe :
          /\ pipe[i] \in AloneFrames[files[i]]
          /\ pipe[i].pc # "done" => ENABLED StepOf(i)
    \* the batch ends when every pipeline has
    /\ (mainPc = "awaitAll" /\ \A i \in DOMAIN pipe : pipe[i].pc = "done") =>
          ENABLED Report
    \* N result lines and a tally of N, K of the lines validation failures
    /\ mainPc = "done" =>
          LET n == Len(files)
          IN  /\ Len(printed) >= n + 2
              /\ \A i \in 1..n : printed[i + 1] = ResultLine(pipe[i].result)
              /\ printed[n + 2].line = "Processed"
              /\ printed[n + 2].total = n
              /\ printed[n + 2].successful + printed[n + 2].failed = n
              /\ printed[n + 2].failed >= Cardinality(UnsupportedFiles)
              /\ \A i \in 1..n :
                    i \in UnsupportedFiles <=>
                        /\ printed[i + 1].line = "Failed to process"
                        /\ printed[i + 1].message = Some(UnsupportedMsg)

C5_Act ==
    \* a step of one pipeline leaves every sibling's frame and result alone
    /\ \A i, j \in DOMAIN pipe :
          (i # j /\ pipe'[i] # pipe[i]) => pipe'[j] = pipe[j]
    \* a pipeline moves as it moves alone, and a settled result is final
    /\ \A i \in DOMAIN pipe :
          pipe'[i] # pipe[i] => pipe'[i] \in Successors(pipe[i])

\* C5: batch independence.  A failure at any step of one file's pipeline
\* becomes that file's failed result and nothing else: it never makes the run
\* fatal, never blocks or changes a sibling's pipeline, and the batch of N
\* files reports N results of which the K files of unsupported extension are
\* K validation failures.
C5_BatchIndependence == []C5_Inv /\ [][C5_Act]_vars

\* A finished batch of two files: c.txt failed validation, the other file
\* was renamed.
C5_Witness ==
    /\ mainPc = "done"
    /\ Len(files) = 2
    /\ \E i, j \in DOMAIN pipe :
          /\ pipe[i].extension = TXT
          /\ ~pipe[i].result.success
          /\ pipe[j].result.success

-----------------------------------------------------------------------------
(* C6 *)

\* C6: every request sent carries a format among png, jpeg, gif, webp; a
\* file whose normalized extension is outside that set ends with the
\* validation error with no byte read and no request sent.
C6_RequestsCarryAcceptedFormat ==
    \A i \in DOMAIN pipe :
        LET p == pipe[i]
        IN  /\ \A k \in 1..Len(p.sent) :
                  p.sent[k] \in BedrockAcceptedImageExtensions
            /\ p.extension \notin BedrockAcceptedImageExtensions =>
                  /\ p.sent = <<>>
                  /\ ~p.image.present
                  /\ p.pc = "done"
                  /\ ~p.result.success
                  /\ p.result.error = Some(Err(UnsupportedMsg, 0))

\* a.jpg was sent as jpeg while c.txt failed validation.
C6_Witness ==
    \E i, j \in DOMAIN pipe :
        /\ pipe[i].originalName = Str_a_jpg
        /\ pipe[i].sent = <<JPEG>>
        /\ pipe[j].originalName = Str_c_txt
        /\ pipe[j].pc = "done"

-----------------------------------------------------------------------------
(* C7 *)

\* C7: a result processImage returns has newName exactly when success is
\* true and error exactly when success is false.
C7_ExactlyOneOfNewNameAndError ==
    \A i \in DOMAIN pipe :
        pipe[i].pc = "done" =>
            /\ pipe[i].result.newName.present <=> pipe[i].result.success
            /\ pipe[i].result.error.present <=> ~pipe[i].result.success

\* One file was renamed, the other had its name extracted and failed in the
\* write.
C7_Witness ==
    \E i, j \in DOMAIN pipe :
        /\ pipe[i].pc = "done"
        /\ pipe[i].newFileName.present
        /\ pipe[i].result.error = Some(Err(WriteMsg, 0))
        /\ pipe[j].pc = "done"
        /\ pipe[j].result.success

-----------------------------------------------------------------------------
(* C8 *)

\* C8 as claimed: a text holding <filename>X</filename>, X any sequence, the
\* empty one included, yields the X of the first pair; a text without a pair
\* yields the extraction error.
C8_ExtractReturnsFirstName ==
    extracted.present =>
        IF Pairs(text) # {}
        THEN extracted.value = Returned(FirstName(text))
        ELSE extracted.value = Thrown(ExtractionMsg)

\* C8, amended: a text holding <filename>X</filename> yields the X of the
\* first pair when that X is not empty (line breaks in it included); a text
\* without a pair, and a text whose first pair is empty, yield the
\* extraction error.
C8_ExtractReturnsNonEmptyFirstName ==
    extracted.present =>
        IF Pairs(text) # {} /\ FirstName(text) # <<>>
        THEN extracted.value = Returned(FirstName(text))
        ELSE extracted.value = Thrown(ExtractionMsg)

\* Two pairs, the first with a line break in it.
C8_Witness ==
    /\ extracted.present
    /\ text = <<OPEN, "x", NL, CLOSE, OPEN, CLOSE>>
    /\ extracted.value = Returned(<<"x", NL>>)

-----------------------------------------------------------------------------
(* C9 *)

\* C9: isValidImageExtension is true of png, jpeg, gif and webp and false of
\* every other string, "jpg" and "" included.
C9_ValidExactlyTheAcceptedFormats ==
    validated.present =>
        validated.value = (input \in BedrockAcceptedImageExtensions)

-----------------------------------------------------------------------------
(* C10 *)

\* C10: for a name without "." getNormalizedExtension returns the empty
\* token, so that the file fails validation and no request is sent for it.
C10_NoSeparatorNeverValid ==
    \A i \in DOMAIN pipe :
        (\A k \in 1..Len(pipe[i].originalName) : pipe[i].originalName[k] # ".") =>
            /\ pipe[i].extension = <<>>
            /\ pipe[i].sent = <<>>
            /\ pipe[i].pc = "done"
            /\ pipe[i].result.error = Some(Err(UnsupportedMsg, 0))

-----------------------------------------------------------------------------
(* The report of main on every settled batch of up to MaxBatch files *)

MaxBatch == 3

RegularFiles == {e \in EntryPool : e.isFile}

\* Directories of regular files only, up to MaxBatch of them.
Batches ==
    UNION { { l \in [1..n -> RegularFiles] :
                \A i, j \in 1..n : i # j => l[i].name # l[j].name }
            : n \in 0..MaxBatch }

\* The frames in which the pipeline of an entry can settle.
SettledFrames(e) == {p \in AloneFrames[e] : p.pc = "done"}

\* Every way the pipelines of a batch can have settled.
RECURSIVE SettledPipes(_)
SettledPipes(batch) ==
    IF batch = <<>> THEN {<<>>}
    ELSE {Append(q, p) : q \in SettledPipes(SubSeq(batch, 1, Len(batch) - 1)),
                         p \in SettledFrames(batch[Len(batch)])}

\* The output directory after the first k pipelines wrote in that order.
RECURSIVE WrittenBy(_, _)
WrittenBy(frames, k) ==
    IF k = 0 THEN {}
    ELSE IF frames[k].result.success
         THEN WriteFile(WrittenBy(frames, k - 1), frames[k].newPath.value,
                        frames[k].image.value)
         ELSE WrittenBy(frames, k - 1)

\* main at line 307 when Promise.all is about to fulfil.
InitReport ==
    /\ inDir = "dir"
    /\ outDir = "dir"
    /\ listing \in Batches
    /\ mainPc = "awaitAll"
    /\ cursor = Len(listing)
    /\ files = listing
    /\ pipe \in SettledPipes(listing)
    /\ outFiles = WrittenBy(pipe, Len(pipe))
    /\ printed = <<[line |-> "Processing", count |-> Len(listing)]>>
    /\ exitCode = None
    /\ text = <<>>
    /\ extracted = None
    /\ input = <<>>
    /\ normalized = None
    /\ validated = None
    /\ renormalized = None

NextReport == Report

SpecReport == InitReport /\ [][NextReport]_vars

-----------------------------------------------------------------------------
(* C11 *)

\* The name ends in "." and the extension e.
EndsInExtension(name, e) ==
    /\ Len(name) > Len(e)
    /\ name[Len(name) - Len(e)] = "."
    /\ \A k \in 1..Len(e) : name[Len(name) - Len(e) + k] = e[k]

\* C11: for a name ending in a supported extension (jpg, jpeg, png, gif,
\* webp) normalizing a name that ends in the normalized extension returns it
\* unchanged, and a name ending in a canonical token (png, jpeg, gif, webp)
\* normalizes to that token.
C11_NormalizationIdempotent ==
    \A e \in SUPPORTED_EXTENSIONS :
        EndsInExtension(input, e) =>
            /\ normalized.present =>
                  /\ normalized.value \in BedrockAcceptedImageExtensions
                  /\ e \in BedrockAcceptedImageExtensions => normalized.value = e
            /\ renormalized.present => renormalized.value = normalized.value

\* a.jpg gave jpeg, and x.jpeg gave jpeg again.
C11_Witness ==
    /\ input = Str_a_jpg
    /\ normalized = Some(JPEG)
    /\ renormalized = Some(JPEG)

-----------------------------------------------------------------------------
(* C12 *)

ReportLines == {"Successfully renamed", "Failed to process", "Processed",
                "You really messed up!"}

\* C12: while main awaits, every enumerated file has a started pipeline, and
\* no result line, tally or warning is printed unless every file's pipeline
\* has settled.
C12_StartedTogetherReportedAfterAll ==
    /\ mainPc \in {"awaitAll", "done"} => Len(pipe) = Len(files)
    /\ pipe # <<>> => mainPc \in {"awaitAll", "done"}
    /\ (\E k \in DOMAIN printed : printed[k].line \in ReportLines) =>
          /\ Len(pipe) = Len(files)
          /\ \A i \in DOMAIN pipe : pipe[i].pc = "done"

\* Two files went through their remote calls and the report was printed.
C12_Witness ==
    /\ mainPc = "done"
    /\ Len(pipe) = 2
    /\ \A i \in DOMAIN pipe : Len(pipe[i].sent) >= 1
    /\ \E k \in DOMAIN printed : printed[k].line = "Processed"

-----------------------------------------------------------------------------
(* C13 *)

FailedResults == {i \in DOMAIN pipe : ~pipe[i].result.success}

WarningPrinted ==
    \E k \in DOMAIN printed : printed[k].line = "You really messed up!"

\* C13: after the report, the tally's successful and failed counts add up to
\* its total, which is the number of enumerated files, and the warning is
\* printed exactly when twice the number of failures exceeds the total (so
\* not for exactly half of an even batch, and not for an empty batch).
C13_WarningIffStrictMajority ==
    mainPc = "done" =>
        LET n     == Len(files)
            tally == printed[n + 2]
        IN  /\ Len(printed) \in {n + 2, n + 3}
            /\ tally.line = "Processed"
            /\ tally.total = n
            /\ tally.successful + tally.failed = tally.total
            /\ tally.failed = Cardinality(FailedResults)
            /\ WarningPrinted <=> 2 * tally.failed > tally.total
            /\ WarningPrinted <=> Len(printed) = n + 3
            /\ n = 0 => ~WarningPrinted
            /\ (n = 2 /\ tally.failed = 1) => ~WarningPrinted
            /\ (n = 3 /\ tally.failed = 1) => ~WarningPrinted
            /\ (n = 3 /\ tally.failed = 2) => WarningPrinted

\* Three files, two failures: the warning is printed after the tally.
C13_Witness ==
    /\ mainPc = "done"
    /\ Len(files) = 3
    /\ Cardinality(FailedResults) = 2
    /\ printed[Len(printed)].line = "You really messed up!"
    /\ printed[Len(printed) - 1] =
          [line |-> "Processed", total |-> 3, successful |-> 1, failed |-> 2]

-----------------------------------------------------------------------------
(* C14 *)

\* Setup and enumeration succeeded: main printed the count of files.
Dispatched == \E k \in DOMAIN printed : printed[k].line = "Processing"

\* C14: once setup and enumeration have succeeded the run never takes the
\* fatal path: while pipelines are pending no exit status is set, the report
\* can be made as soon as all have settled, and after the report the exit
\* status is 0 whatever the per-file outcomes are.
C14_SettledBatchExitsZero ==
    /\ Dispatched <=> mainPc \in {"awaitAll", "done"}
    /\ mainPc = "awaitAll" =>
          /\ exitCode = None
          /\ (\A i \in DOMAIN pipe : pipe[i].pc = "done") => ENABLED Report
    /\ mainPc = "done" => exitCode = Some(0)
    /\ exitCode = Some(1) => (mainPc = "fatal" /\ ~Dispatched)

\* Both files of a batch failed, the warning was printed, the exit status
\* is 0.
C14_Witness ==
    /\ mainPc = "done"
    /\ Len(pipe) = 2
    /\ \A i \in DOMAIN pipe : ~pipe[i].result.success
    /\ WarningPrinted
    /\ exitCode = Some(0)

-----------------------------------------------------------------------------
(* C15 *)

C15_Inv ==
    \* a path that is not a directory stops main at its validation
    /\ inDir = "file" => mainPc \in {"validateInput", "fatal"}
    /\ outDir = "file" => mainPc \in {"validateInput", "validateOutput", "fatal"}
    /\ mainPc \in {"readDir", "awaitAll", "done"} =>
          (inDir = "dir" /\ outDir = "dir")
    \* the validations always run
    /\ mainPc = "validateInput" => ENABLED ValidateInput
    /\ mainPc = "validateOutput" => ENABLED ValidateOutput
    \* the fatal path: status 1, nothing started, sent, written or reported
    /\ mainPc = "fatal" =>
          /\ exitCode = Some(1)
          /\ pipe = <<>>
          /\ outFiles = {}
          /\ ~Dispatched
          /\ \A k \in DOMAIN printed : printed[k].line \notin ReportLines
          /\ printed = <<[line |-> "Fatal error"]>>

C15_Act ==
    /\ (mainPc = "validateInput" /\ inDir = "file") => mainPc' = "fatal"
    /\ (mainPc = "validateOutput" /\ outDir = "file") => mainPc' = "fatal"
    \* a missing directory is created and the run goes on
    /\ (mainPc = "validateInput" /\ inDir = "missing") =>
          (inDir' = "dir" /\ mainPc' = "validateOutput")
    /\ (mainPc = "validateOutput" /\ outDir = "missing") =>
          (outDir' = "dir" /\ mainPc' = "readDir")
    \* the process has exited
    /\ mainPc # "fatal"

\* C15: when the input or the output path exists but is not a directory, or
\* reading the directory fails, the run ends on the fatal path with exit
\* status 1 and no pipeline started, no request sent, no output file written
\* and no tally printed; a missing directory is created and the run goes on.
C15_SetupFailureIsFatal == []C15_Inv /\ [][C15_Act]_vars

\* The input directory holds two entries, the output path is a file: the
\* run ended on the fatal path.
C15_Witness ==
    /\ mainPc = "fatal"
    /\ inDir = "dir"
    /\ outDir = "file"
    /\ Len(listing) = 2
    /\ exitCode = Some(1)
-----------------------------------------------------------------------------
(* C16 *)

\* The pipeline of file i reported success.
Succeeded(i) == pipe[i].pc = "done" /\ pipe[i].result.success

\* The write of pipeline i completes in this step.
WriteCompletes(i) ==
    /\ pipe[i].pc = "writing"
    /\ pipe'[i].pc = "done"
    /\ pipe'[i].result.success

C16_Inv ==
    \* an output path holds one content
    /\ \A f, g \in outFiles : f.path = g.path => f = g
    \* two pipelines that wrote the same path both succeeded, and the path
    \* holds the bytes of one of them
    /\ \A i, j \in DOMAIN pipe :
          (i # j /\ Succeeded(i) /\ Succeeded(j)
               /\ pipe[i].newPath = pipe[j].newPath) =>
              /\ pipe[i].result.newName = pipe[i].newFileName
              /\ pipe[j].result.newName = pipe[j].newFileName
              /\ ~pipe[i].result.error.present
              /\ ~pipe[j].result.error.present
              /\ \E f \in outFiles :
                    /\ f.path = pipe[i].newPath.value
                    /\ f.bytes \in {Bytes(pipe[i].originalName),
                                     Bytes(pipe[j].originalName)}
    \* no failure line and no warning comes from the collision
    /\ (mainPc = "done" /\ \A i \in DOMAIN pipe : Succeeded(i)) =>
          /\ ~WarningPrinted
          /\ \A i \in DOMAIN pipe :
                printed[i + 1].line = "Successfully renamed"

C16_Act ==
    \A i \in DOMAIN pipe :
        WriteCompletes(i) =>
            \* whatever the path held, it now holds this pipeline's bytes
            /\ [path |-> pipe[i].newPath.value,
                bytes |-> Bytes(pipe[i].originalName)] \in outFiles'
            /\ {f \in outFiles' : f.path # pipe[i].newPath.value}
                  = {f \in outFiles : f.path # pipe[i].newPath.value}

\* C16: two files with the same normalized extension and the same extracted
\* name both report success; each completed write replaces what the output
\* path held, so the path ends with the bytes of the write that completed
\* later; the collision produces no failure and no warning.
C16_LastWriterWins == []C16_Inv /\ [][C16_Act]_vars

\* b.PNG and png both became n.png; the file enumerated first wrote last.
C16_Witness ==
    /\ mainPc = "done"
    /\ Len(pipe) = 2
    /\ Succeeded(1) /\ Succeeded(2)
    /\ pipe[1].newPath = pipe[2].newPath
    /\ outFiles = {[path |-> pipe[1].newPath.value,
                    bytes |-> Bytes(pipe[1].originalName)]}
-----------------------------------------------------------------------------
(* C17 *)

\* The output path of a file named originalName whose extracted name is
\* newName.
OutputPath(originalName, newName) ==
    newName \o <<".">> \o getNormalizedExtension(originalName)

C17_Inv ==
    \* a successful pipeline read the original bytes and its path
    \* <name>.<normalized extension> exists in the output directory
    /\ \A i \in DOMAIN pipe :
          Succeeded(i) =>
              /\ pipe[i].image = Some(Bytes(pipe[i].originalName))
              /\ pipe[i].newPath.value =
                    OutputPath(pipe[i].originalName, pipe[i].result.newName.value)
              /\ pipe[i].originalName = Str_a_jpg =>
                    pipe[i].newPath.value =
                        pipe[i].result.newName.value \o <<".">> \o JPEG
              /\ \E f \in outFiles : f.path = pipe[i].newPath.value
    \* every output file is a copy of the original bytes of a successful file
    /\ \A f \in outFiles :
          \E i \in DOMAIN pipe :
              /\ Succeeded(i)
              /\ f.path = pipe[i].newPath.value
              /\ f.bytes = Bytes(pipe[i].originalName)
    \* every entry that was picked up is still in the input directory
    /\ \A i \in DOMAIN files :
          \E k \in DOMAIN listing : listing[k] = files[i]

C17_Act ==
    \* the input directory keeps its entries
    /\ listing' = listing
    /\ inDir = "dir" => inDir' = "dir"

\* C17: a successful pipeline writes a copy of the original bytes to
\* <extracted name>.<normalized extension> in the output directory (a.jpg
\* becomes n.jpeg, not n.jpg), and no step changes the entries of the input
\* directory.
C17_CopiesToNormalizedPath == []C17_Inv /\ [][C17_Act]_vars

\* a.jpg was copied to n.jpeg and is still listed in the input directory.
C17_Witness ==
    /\ \E i \in DOMAIN pipe :
          /\ Succeeded(i)
          /\ pipe[i].originalName = Str_a_jpg
          /\ [path |-> <<"n", ".", "j", "p", "e", "g">>,
              bytes |-> Bytes(Str_a_jpg)] \in outFiles
    /\ \E k \in DOMAIN listing : listing[k].name = Str_a_jpg
-----------------------------------------------------------------------------
(* C18 *)

\* Every pending filesystem operation and remote call eventually returns and
\* main continues when it can: the run does not stall while a step is
\* possible.
Fairness == WF_vars(Next)

FairSpec == Spec /\ Fairness

TallyPrinted == \E k \in DOMAIN printed : printed[k].line = "Processed"

C18_Inv ==
    \* the batch is not complete while a pipeline is pending
    /\ (\E i \in DOMAIN pipe : pipe[i].pc # "done") =>
          (~TallyPrinted /\ mainPc # "done" /\ ~ENABLED Report)
    \* a pending pipeline does not hold back the others
    /\ mainPc = "awaitAll" =>
          \A i \in DOMAIN pipe : pipe[i].pc # "done" => ENABLED StepOf(i)
    \* a run that started its pipelines does not end on the fatal path
    /\ mainPc = "fatal" => (pipe = <<>> /\ ~Dispatched)

\* C18: when every pending operation eventually returns, the run ends, and
\* a run that started its pipelines ends with every pipeline settled and the
\* tally printed; the tally is never printed while a pipeline is pending,
\* and a pending pipeline never disables the steps of the others.
C18_BatchTerminates ==
    /\ []C18_Inv
    /\ <>(\/ mainPc = "fatal"
          \/ /\ mainPc = "done"
             /\ TallyPrinted
             /\ \A i \in DOMAIN pipe : pipe[i].pc = "done")

\* One file used up its four attempts, the other was renamed, and the tally
\* is printed.
C18_Witness ==
    /\ mainPc = "done"
    /\ TallyPrinted
    /\ Len(pipe) = 2
    /\ \E i, j \in DOMAIN pipe :
          /\ Len(pipe[i].sent) = MaxAttempts
          /\ ~pipe[i].result.success
          /\ Succeeded(j)
-----------------------------------------------------------------------------
(* C19 *)

\* The output files that hold the bytes of file i.
CopiesOf(i) == {f \in outFiles : f.bytes = Bytes(pipe[i].originalName)}

C19_Inv ==
    \A i \in DOMAIN pipe :
        \* success is reported only for a settled pipeline with an extracted
        \* name whose path was written
        /\ pipe[i].result.success =>
              /\ pipe[i].pc = "done"
              /\ pipe[i].newFileName.present
              /\ \E f \in outFiles : f.path = pipe[i].newPath.value
        \* nothing of a file is written before its name is extracted, nor by
        \* a pipeline that has not reported success
        /\ ~pipe[i].newFileName.present => CopiesOf(i) = {}
        /\ ~Succeeded(i) => CopiesOf(i) = {}
        /\ Cardinality(CopiesOf(i)) <= 1

C19_Act ==
    \* the output directory changes only when one pipeline's write completes
    /\ outFiles' # outFiles =>
          \E i \in DOMAIN pipe :
              /\ WriteCompletes(i)
              /\ pipe[i].newFileName.present
              /\ \A j \in DOMAIN pipe : j # i => pipe'[j] = pipe[j]
    /\ \A i \in DOMAIN pipe :
          \* success is set by the completion of the write
          /\ (~pipe[i].result.success /\ pipe'[i].result.success) =>
                /\ WriteCompletes(i)
                /\ [path |-> pipe[i].newPath.value,
                    bytes |-> Bytes(pipe[i].originalName)] \in outFiles'
          \* the write is issued once, after the name was extracted, and a
          \* settled pipeline does nothing more
          /\ (pipe[i].pc # "writing" /\ pipe'[i].pc = "writing") =>
                (pipe[i].pc = "awaiting" /\ pipe'[i].newFileName.present)
          /\ pipe[i].pc = "writing" => pipe'[i].pc \in {"writing", "done"}
          /\ pipe[i].pc = "done" => pipe'[i] = pipe[i]

\* C19: a pipeline writes to the output directory at most once, and only
\* after a filename was extracted; a pipeline that fails in validation,
\* reading, transport or extraction writes nothing; success is true only if
\* the pipeline's write completed.
C19_WriteOnceAfterExtraction == []C19_Inv /\ [][C19_Act]_vars

\* One file was renamed after a retry, the other used up its attempts: the
\* output directory holds one file.
C19_Witness ==
    /\ mainPc = "done"
    /\ Len(pipe) = 2
    /\ \E i, j \in DOMAIN pipe :
          /\ Succeeded(i)
          /\ Len(pipe[i].sent) = 2
          /\ Exhausted(pipe[j])
          /\ ~pipe[j].result.success
          /\ CopiesOf(j) = {}
    /\ Cardinality(outFiles) = 1
-----------------------------------------------------------------------------
(* C20 *)

IsRegular(entry) == entry.isFile

\* The regular files among the first k entries, in enumeration order.
RegularAmong(k) == SelectSeq(SubSeq(listing, 1, k), IsRegular)

ResultLinesPrinted ==
    {k \in DOMAIN printed :
        printed[k].line \in {"Successfully renamed", "Failed to process"}}

\* C20: the files picked up are the regular files of the directory in
\* enumeration order, an entry that is not a regular file gets no pipeline,
\* and the report holds one result line per regular file, in enumeration
\* order whatever the order in which the pipelines settled.
C20_ResultLinesInEnumerationOrder ==
    /\ files = RegularAmong(cursor)
    /\ \A i \in DOMAIN pipe :
          /\ pipe[i].originalName = files[i].name
          /\ pipe[i].originalName # Str_sub
    /\ mainPc = "done" =>
          LET regular == RegularAmong(Len(listing))
          IN  /\ Len(pipe) = Len(regular)
              /\ ResultLinesPrinted = {i + 1 : i \in DOMAIN regular}
              /\ \A i \in DOMAIN regular :
                    printed[i + 1].originalName = regular[i].name

\* b.PNG is enumerated before png and wrote n.png after it: the line of
\* b.PNG is still printed first.
C20_Witness ==
    /\ mainPc = "done"
    /\ listing = <<[name |-> Str_b_PNG, isFile |-> TRUE],
                   [name |-> Str_png, isFile |-> TRUE]>>
    /\ outFiles = {[path |-> <<"n", ".", "p", "n", "g">>,
                    bytes |-> Bytes(Str_b_PNG)]}
    /\ printed[2].line = "Successfully renamed"
    /\ printed[2].originalName = Str_b_PNG
    /\ printed[3].line = "Successfully renamed"
    /\ printed[3].originalName = Str_png

====
